---- MODULE Spec2Model ----
(***************************************************************************)
(* The calculators of uber-rides (src/src/calculations.ts and              *)
(* src/src/planner.ts) over JavaScript numbers.                            *)
(*                                                                         *)
(* A JavaScript number is an IEEE-754 binary64 value.  It is modelled      *)
(* bit-exactly: NaN, the two infinities, and the finite values             *)
(* s * m * 2^e with a significand m of at most 53 bits, every operation    *)
(* rounding its exact result to the nearest value, ties to even, with      *)
(* overflow to Infinity and gradual underflow.  Significands are natural   *)
(* numbers of any size, kept as little-endian sequences of 15-bit limbs.   *)
(***************************************************************************)
EXTENDS Integers, Sequences, FiniteSets, TLC

(***************************************************************************)
(* The objects the module exports, ESTIMATOR_CONSTANTS and DPM_FLOORS,     *)
(* as they are now.  Every call reads them.                                *)
(***************************************************************************)
VARIABLE shared


(***************************************************************************)
(* Natural numbers of any size.                                            *)
(***************************************************************************)
Base == 2^15

Pow2(n) == 2^n

Limb(a, i) == IF i <= Len(a) THEN a[i] ELSE 0

RECURSIVE BTrim(_)
BTrim(a) ==
    IF a = <<>> THEN <<>>
    ELSE IF a[Len(a)] = 0 THEN BTrim(SubSeq(a, 1, Len(a) - 1))
    ELSE a

BFromInt(n) ==
    IF n = 0 THEN <<>>
    ELSE IF n < Base THEN <<n>>
    ELSE IF n < Base * Base THEN <<n % Base, n \div Base>>
    ELSE <<n % Base, (n \div Base) % Base, n \div (Base * Base)>>

RECURSIVE BAddFrom(_, _, _, _)
BAddFrom(a, b, i, c) ==
    IF i > Len(a) /\ i > Len(b)
    THEN (IF c = 0 THEN <<>> ELSE <<c>>)
    ELSE LET s == Limb(a, i) + Limb(b, i) + c
         IN  <<s % Base>> \o BAddFrom(a, b, i + 1, s \div Base)

BAdd(a, b) == BAddFrom(a, b, 1, 0)

RECURSIVE BSubFrom(_, _, _, _)
BSubFrom(a, b, i, c) ==
    IF i > Len(a) THEN <<>>
    ELSE LET d == a[i] - Limb(b, i) - c
         IN  IF d < 0 THEN <<d + Base>> \o BSubFrom(a, b, i + 1, 1)
             ELSE <<d>> \o BSubFrom(a, b, i + 1, 0)

\* a - b, for a >= b
BSub(a, b) == BTrim(BSubFrom(a, b, 1, 0))

RECURSIVE BCmpFrom(_, _, _)
BCmpFrom(a, b, i) ==
    IF i = 0 THEN 0
    ELSE IF a[i] > b[i] THEN 1
    ELSE IF a[i] < b[i] THEN -1
    ELSE BCmpFrom(a, b, i - 1)

\* -1, 0 or 1 as a < b, a = b, a > b
BCmp(a, b) ==
    IF Len(a) > Len(b) THEN 1
    ELSE IF Len(a) < Len(b) THEN -1
    ELSE BCmpFrom(a, b, Len(a))

RECURSIVE BMulSmallFrom(_, _, _, _)
BMulSmallFrom(a, k, i, c) ==
    IF i > Len(a)
    THEN (IF c = 0 THEN <<>> ELSE <<c>>)
    ELSE LET p == a[i] * k + c
         IN  <<p % Base>> \o BMulSmallFrom(a, k, i + 1, p \div Base)

\* a * k, for 0 <= k <= Base
BMulSmall(a, k) == IF k = 0 THEN <<>> ELSE BMulSmallFrom(a, k, 1, 0)

Zeros(n) == [i \in 1..n |-> 0]

RECURSIVE BMulFrom(_, _, _)
BMulFrom(a, b, i) ==
    IF i > Len(b) THEN <<>>
    ELSE BAdd(IF b[i] = 0 THEN <<>> ELSE Zeros(i - 1) \o BMulSmall(a, b[i]),
              BMulFrom(a, b, i + 1))

BMul(a, b) == IF a = <<>> \/ b = <<>> THEN <<>> ELSE BMulFrom(a, b, 1)

RECURSIVE BitLenInt(_)
BitLenInt(n) == IF n = 0 THEN 0 ELSE 1 + BitLenInt(n \div 2)

BBitLen(a) == IF a = <<>> THEN 0 ELSE 15 * (Len(a) - 1) + BitLenInt(a[Len(a)])

\* a * 2^n
BShl(a, n) ==
    IF a = <<>> THEN <<>>
    ELSE Zeros(n \div 15) \o BMulSmall(a, Pow2(n % 15))

RECURSIVE BDivSmallFrom(_, _, _, _)
BDivSmallFrom(a, k, i, r) ==
    IF i = 0 THEN <<>>
    ELSE LET cur == r * Base + a[i]
         IN  BDivSmallFrom(a, k, i - 1, cur % k) \o <<cur \div k>>

\* a \div k, for 0 < k <= Base
BDivSmall(a, k) == BTrim(BDivSmallFrom(a, k, Len(a), 0))

\* a \div 2^n
BShr(a, n) ==
    IF n \div 15 >= Len(a) THEN <<>>
    ELSE BDivSmall(SubSeq(a, n \div 15 + 1, Len(a)), Pow2(n % 15))

\* bit i of a, bit 0 the lowest
BBit(a, i) == (Limb(a, i \div 15 + 1) \div Pow2(i % 15)) % 2

\* whether a % 2^n is not 0
BLowBits(a, n) ==
    \/ \E i \in 1..(n \div 15) : Limb(a, i) # 0
    \/ Limb(a, n \div 15 + 1) % Pow2(n % 15) # 0

BIsOdd(a) == a # <<>> /\ a[1] % 2 = 1

\* binary long division: st = <<q, r>> with r < d becomes <<q', r'>> with
\* q' the quotient q followed by the next n quotient bits of r / d, and r'
\* the remainder
RECURSIVE BDivBits(_, _, _)
BDivBits(st, d, n) ==
    IF n = 0 THEN st
    ELSE LET r2 == BMulSmall(st[2], 2)
             q2 == BMulSmall(st[1], 2)
         IN  IF BCmp(r2, d) >= 0
             THEN BDivBits(<<BAdd(q2, <<1>>), BSub(r2, d)>>, d, n - 1)
             ELSE BDivBits(<<q2, r2>>, d, n - 1)

(***************************************************************************)
(* JavaScript values.  Every value is a record of one shape: k is the      *)
(* kind, and a finite number ("fin") is s * m * 2^e with sign s, the       *)
(* significand m of exactly 53 bits (fewer only at e = -1074, the          *)
(* subnormal numbers) and zero kept as m = <<>>, e = 0.  The kinds         *)
(* "undefined", "null" and "string" are the values that are not numbers.   *)
(***************************************************************************)
Val(k, s, m, e) == [k |-> k, s |-> s, m |-> m, e |-> e]

NaN == Val("nan", 1, <<>>, 0)

Inf(s) == Val("inf", s, <<>>, 0)

Zero(s) == Val("fin", s, <<>>, 0)

Undefined == Val("undefined", 1, <<>>, 0)

Null == Val("null", 1, <<>>, 0)

\* a string that does not spell a number, such as "abc"
Str == Val("string", 1, <<>>, 0)

IsNaN(x) == x.k = "nan"

IsInf(x) == x.k = "inf"

IsZero(x) == x.k = "fin" /\ x.m = <<>>

\* Number.isFinite
IsFinite(x) == x.k = "fin"

Neg(x) == IF x.k \in {"fin", "inf"} THEN [x EXCEPT !.s = -x.s] ELSE x

\* the exact value s * m * 2^e as a number, Infinity past the largest one
Pack(s, m, e) ==
    IF m = <<>> THEN Zero(s)
    ELSE IF e > 971 THEN Inf(s)
    ELSE Val("fin", s, m, e)

\* s * q * 2^e for a significand q of at most 54 bits: one of 54 bits is
\* a power of two, halved exactly
PackCarry(s, q, e) ==
    IF BBitLen(q) = 54 THEN Pack(s, BShr(q, 1), e + 1) ELSE Pack(s, q, e)

\* m without its sh low bits, plus one when those bits (and the sticky
\* rest) are above a half, or are a half and the result would be odd
RoundShifted(m, sh, sticky, q) ==
    IF BBit(m, sh - 1) = 1 /\ (sticky \/ BLowBits(m, sh - 1) \/ BIsOdd(q))
    THEN BAdd(q, <<1>>) ELSE q

\* rounding away the sh low bits of m (none when sh <= 0)
RoundBits(s, m, e, sticky, sh) ==
    IF sh <= 0 THEN Pack(s, BShl(m, -sh), e + sh)
    ELSE PackCarry(s, RoundShifted(m, sh, sticky, BShr(m, sh)), e + sh)

\* the number of low bits that 53 bits of significand and the least
\* exponent, -1074, leave no room for, given len bits at exponent e
ExcessBits(len, e) ==
    IF e + (len - 53) < -1074 THEN -1074 - e ELSE len - 53

\* s * (m + f) * 2^e rounded to the nearest number, ties to even, where
\* 0 < f < 1 when `sticky` and f = 0 otherwise
RoundPack(s, m, e, sticky) ==
    IF m = <<>> THEN Zero(s)
    ELSE RoundBits(s, m, e, sticky, ExcessBits(BBitLen(m), e))

\* an integer literal
Num(n) ==
    RoundPack(IF n < 0 THEN -1 ELSE 1, BFromInt(IF n < 0 THEN -n ELSE n), 0,
              FALSE)

\* x * y
FMul(x, y) ==
    IF IsNaN(x) \/ IsNaN(y) THEN NaN
    ELSE IF (IsInf(x) /\ IsZero(y)) \/ (IsZero(x) /\ IsInf(y)) THEN NaN
    ELSE IF IsInf(x) \/ IsInf(y) THEN Inf(x.s * y.s)
    ELSE RoundPack(x.s * y.s, BMul(x.m, y.m), x.e + y.e, FALSE)

\* the quotient <<q, r>> of 56 more bits, rounded: r # 0 is the sticky rest
DivRound(s, qr, e) == RoundPack(s, qr[1], e, qr[2] # <<>>)

\* s * (a / b) * 2^e for a and b of the same bit length: the first bit
\* of the quotient is a >= b, 56 more follow
DivAligned(s, a, b, e) ==
    DivRound(s,
             BDivBits(IF BCmp(a, b) >= 0 THEN <<<<1>>, BSub(a, b)>>
                      ELSE <<<<>>, a>>, b, 56),
             e - 56)

\* m * 2^(len - la) for len >= la: m brought to len bits
Aligned(m, la, len) == IF la < len THEN BShl(m, len - la) ELSE m

\* x / y for finite x, y # 0 with significands of la and lb bits
DivFinite(x, y, la, lb) ==
    DivAligned(x.s * y.s,
               Aligned(x.m, la, lb),
               Aligned(y.m, lb, la),
               x.e - y.e + la - lb)

\* x / y
FDiv(x, y) ==
    IF IsNaN(x) \/ IsNaN(y) THEN NaN
    ELSE IF (IsInf(x) /\ IsInf(y)) \/ (IsZero(x) /\ IsZero(y)) THEN NaN
    ELSE IF IsInf(x) \/ IsZero(y) THEN Inf(x.s * y.s)
    ELSE IF IsInf(y) \/ IsZero(x) THEN Zero(x.s * y.s)
    ELSE DivFinite(x, y, BBitLen(x.m), BBitLen(y.m))

\* x + y for finite x, y with y below 2^-7 units of x's last place: only
\* the side of x on which the exact sum lies matters to the rounding
FarAdd(x, y) ==
    RoundPack(x.s,
              IF x.s = y.s THEN BShl(x.m, 3) ELSE BSub(BShl(x.m, 3), <<1>>),
              x.e - 3, TRUE)

\* sx * a + sy * b, exactly, as <<sign, magnitude>>; c is BCmp(a, b)
SignedSum(sx, a, sy, b, c) ==
    IF sx = sy THEN <<sx, BAdd(a, b)>>
    ELSE IF c = 0 THEN <<1, <<>>>>
    ELSE IF c > 0 THEN <<sx, BSub(a, b)>>
    ELSE <<sy, BSub(b, a)>>

\* (sx * a + sy * b) * 2^e, rounded
AddAligned(sx, a, sy, b, e) ==
    RoundPack(SignedSum(sx, a, sy, b, BCmp(a, b))[1],
              SignedSum(sx, a, sy, b, BCmp(a, b))[2], e, FALSE)

\* x + y for finite x, y # 0 whose exponents differ by 60 at most; e is
\* the smaller exponent
AddNear(x, y, e) ==
    AddAligned(x.s, BShl(x.m, x.e - e), y.s, BShl(y.m, y.e - e), e)

\* x + y
FAdd(x, y) ==
    IF IsNaN(x) \/ IsNaN(y) THEN NaN
    ELSE IF IsInf(x) /\ IsInf(y) THEN (IF x.s = y.s THEN x ELSE NaN)
    ELSE IF IsInf(x) THEN x
    ELSE IF IsInf(y) THEN y
    ELSE IF IsZero(x) /\ IsZero(y) THEN Zero(IF x.s = y.s THEN x.s ELSE 1)
    ELSE IF IsZero(x) THEN y
    ELSE IF IsZero(y) THEN x
    ELSE IF x.e - y.e > 60 THEN FarAdd(x, y)
    ELSE IF y.e - x.e > 60 THEN FarAdd(y, x)
    ELSE AddNear(x, y, IF x.e < y.e THEN x.e ELSE y.e)

\* x - y
FSub(x, y) == FAdd(x, Neg(y))

\* Math.ceil
FCeil(x) ==
    IF x.k # "fin" \/ x.e >= 0 THEN x
    ELSE RoundPack(x.s,
                   IF x.s = 1 /\ BLowBits(x.m, -x.e)
                   THEN BAdd(BShr(x.m, -x.e), <<1>>) ELSE BShr(x.m, -x.e),
                   0, FALSE)

\* the order of two numbers that are not NaN: -1, 0 or 1
Rank(x) == IF IsInf(x) THEN 2 * x.s ELSE IF IsZero(x) THEN 0 ELSE x.s

Cmp(x, y) ==
    IF Rank(x) # Rank(y) THEN (IF Rank(x) > Rank(y) THEN 1 ELSE -1)
    ELSE IF IsInf(x) \/ IsZero(x) THEN 0
    ELSE IF x.e # y.e THEN (IF x.e > y.e THEN x.s ELSE -x.s)
    ELSE x.s * BCmp(x.m, y.m)

\* x >= y, x > y, x < y, x === y on numbers: FALSE when either is NaN
FGe(x, y) == ~IsNaN(x) /\ ~IsNaN(y) /\ Cmp(x, y) >= 0

FGt(x, y) == ~IsNaN(x) /\ ~IsNaN(y) /\ Cmp(x, y) > 0

FLt(x, y) == ~IsNaN(x) /\ ~IsNaN(y) /\ Cmp(x, y) < 0

\* Math.max and Math.min of two numbers
MathMax(x, y) ==
    IF IsNaN(x) \/ IsNaN(y) THEN NaN
    ELSE IF Cmp(x, y) > 0 THEN x
    ELSE IF Cmp(x, y) < 0 THEN y
    ELSE IF IsZero(x) /\ x.s # y.s THEN Zero(1)
    ELSE x

MathMin(x, y) ==
    IF IsNaN(x) \/ IsNaN(y) THEN NaN
    ELSE IF Cmp(x, y) < 0 THEN x
    ELSE IF Cmp(x, y) > 0 THEN y
    ELSE IF IsZero(x) /\ x.s # y.s THEN Zero(-1)
    ELSE x

\* Number(v)
ToNumber(v) ==
    IF v.k \in {"fin", "inf", "nan"} THEN v
    ELSE IF v.k = "null" THEN Zero(1)
    ELSE NaN

\* x || y on numbers: y when x is falsy (NaN, 0 or -0)
Or(x, y) == IF IsNaN(x) \/ IsZero(x) THEN y ELSE x

\* the decimal literal n/d, such as 0.6 = Dec(6, 10)
Dec(n, d) == FDiv(Num(n), Num(d))


(***************************************************************************)
(* src/src/calculations.ts                                                 *)
(***************************************************************************)
\* The number literals of the source, each the binary64 value nearest to
\* the decimal it spells (LiteralsRound states that): 0, 1, 60, 95, 100
\* and 0.1
N0 == Zero(1)

N1 == Val("fin", 1, <<0, 0, 0, 128>>, -52)

N60 == Val("fin", 1, <<0, 0, 0, 240>>, -47)

N95 == Val("fin", 1, <<0, 0, 0, 190>>, -46)

N100 == Val("fin", 1, <<0, 0, 0, 200>>, -46)

Tenth == Val("fin", 1, <<6554, 13107, 26214, 204>>, -56)

\* ClampZero without its Math.max: Number(v) || 0
ClampZeroNoMax(v) == Or(ToNumber(v), N0)

\* Math.max(0, Number(v) || 0)
ClampZero(v) == MathMax(N0, Or(ToNumber(v), N0))

\* ClampTenth without || 0: Math.max(0.1, Number(v))
ClampTenthKeepingNaN(v) == MathMax(Tenth, ToNumber(v))

\* Math.max(0.1, Number(v) || 0)
ClampTenth(v) == MathMax(Tenth, Or(ToNumber(v), N0))

\* Math.min(95, Math.max(0, Number(v) || 0)) / 100
ClampIdle(v) == FDiv(MathMin(N95, ClampZero(v)), N100)

\* centsCeil without its Math.ceil: value * 100 / 100
centsUnrounded(value) == FDiv(FMul(value, N100), N100)

centsCeil(value) == FDiv(FCeil(FMul(value, N100)), N100)

\* decision with > in place of >=
decisionStrict(offer, threshold) ==
    IF FGt(offer, threshold) THEN "accept" ELSE "reject"

decision(offer, threshold) ==
    IF FGe(offer, threshold) THEN "accept" ELSE "reject"

binding(minByTime, minByMiles) ==
    IF FGe(minByTime, minByMiles) THEN "time" ELSE "miles"

\* the decisions and the record computeOnTheRoadMetrics returns
onTheRoadResult(offer, minByTime, minByMiles, minCombined) ==
    [minByTime        |-> minByTime,
     minByMiles       |-> minByMiles,
     minCombined      |-> minCombined,
     binding          |-> binding(minByTime, minByMiles),
     decisionTime     |-> decision(offer, minByTime),
     decisionMiles    |-> decision(offer, minByMiles),
     decisionCombined |-> decision(offer, minCombined)]

\* onTheRoadMinimums with the smaller of the two minimums as minCombined
onTheRoadMinimumsLeast(offer, minByTime, minByMiles) ==
    onTheRoadResult(offer, minByTime, minByMiles,
                    MathMin(minByTime, minByMiles))

\* minCombined = Math.max(minByTime, minByMiles)
onTheRoadMinimums(offer, minByTime, minByMiles) ==
    onTheRoadResult(offer, minByTime, minByMiles,
                    MathMax(minByTime, minByMiles))

\* minByTime and minByMiles of the clamped inputs
onTheRoadClamped(safeMinutes, safeMiles, perMinuteFloor, perMileFloor, offer) ==
    onTheRoadMinimums(offer,
                      centsCeil(FMul(safeMinutes, perMinuteFloor)),
                      centsCeil(FMul(safeMiles, perMileFloor)))

computeOnTheRoadMetrics(input) ==
    onTheRoadClamped(ClampZero(input.minutes),
                     ClampZero(input.miles),
                     ClampZero(input.perMinFloor),
                     ClampZero(input.dpmFloor),
                     ClampZero(input.offer))

\* plannerResult with dphActive / 100 as perMinuteActive
plannerResultOverHundred(dailyTarget, dphAllIn, effectiveHours, dphActive) ==
    [dailyTarget     |-> dailyTarget,
     dphAllIn        |-> dphAllIn,
     dphActive       |-> dphActive,
     effectiveHours  |-> effectiveHours,
     perMinuteActive |-> FDiv(dphActive, N100)]

\* perMinuteActive and the record computePlannerMetrics returns
plannerResult(dailyTarget, dphAllIn, effectiveHours, dphActive) ==
    [dailyTarget     |-> dailyTarget,
     dphAllIn        |-> dphAllIn,
     dphActive       |-> dphActive,
     effectiveHours  |-> effectiveHours,
     perMinuteActive |-> FDiv(dphActive, N60)]

\* plannerRates with the two divisors exchanged
plannerRatesSwapped(safeHours, dailyTarget, effectiveHours) ==
    plannerResult(dailyTarget,
                  FDiv(dailyTarget, effectiveHours),
                  effectiveHours,
                  IF FGt(effectiveHours, N0)
                  THEN FDiv(dailyTarget, safeHours) ELSE N0)

\* dphAllIn and dphActive
plannerRates(safeHours, dailyTarget, effectiveHours) ==
    plannerResult(dailyTarget,
                  FDiv(dailyTarget, safeHours),
                  effectiveHours,
                  IF FGt(effectiveHours, N0)
                  THEN FDiv(dailyTarget, effectiveHours) ELSE N0)

\* plannerClamped with the idle share added to the hours: 1 + idleFraction
plannerClampedIdleAdded(safeGoal, safeDays, safeHours, idleFraction) ==
    plannerRates(safeHours,
                 IF FGt(safeDays, N0) THEN FDiv(safeGoal, safeDays) ELSE N0,
                 MathMax(Tenth, FMul(safeHours, FAdd(N1, idleFraction))))

\* dailyTarget and effectiveHours of the clamped inputs
plannerClamped(safeGoal, safeDays, safeHours, idleFraction) ==
    plannerRates(safeHours,
                 IF FGt(safeDays, N0) THEN FDiv(safeGoal, safeDays) ELSE N0,
                 MathMax(Tenth, FMul(safeHours, FSub(N1, idleFraction))))

computePlannerMetrics(input) ==
    plannerClamped(ClampZero(input.earningsGoal),
                   ClampZero(input.daysInMonth),
                   ClampTenth(input.hoursPerDay),
                   ClampIdle(input.idlePercent))

\* 1.4, 1.7, 2.4
DPM_FLOORS ==
    [r10     |-> Val("fin", 1, <<26214, 19660, 6553, 179>>, -52),
     r10to20 |-> Val("fin", 1, <<13107, 26214, 19660, 217>>, -52),
     r20to25 |-> Val("fin", 1, <<13107, 26214, 19660, 153>>, -51)]

N10 == Val("fin", 1, <<0, 0, 0, 160>>, -49)

N20 == Val("fin", 1, <<0, 0, 0, 160>>, -48)

N25 == Val("fin", 1, <<0, 0, 0, 200>>, -48)

\* maxMiles and the row mk returns
mkRowOverFloorTimes(label, ridesUsed, dpmFloor, minDollars) ==
    [label             |-> label,
     ridesUsed         |-> ridesUsed,
     minDollarsPerRide |-> minDollars,
     maxMilesPerRide   |->
        IF FGt(dpmFloor, N0) THEN FMul(minDollars, dpmFloor) ELSE N0]

mkRow(label, ridesUsed, dpmFloor, minDollars) ==
    [label             |-> label,
     ridesUsed         |-> ridesUsed,
     minDollarsPerRide |-> minDollars,
     maxMilesPerRide   |->
        IF FGt(dpmFloor, N0) THEN FDiv(minDollars, dpmFloor) ELSE N0]

\* mk sharing the daily target among ten rides whatever the row
mkTenRides(dailyTarget, label, ridesUsed, dpmFloor) ==
    mkRow(label, ridesUsed, dpmFloor,
          IF FGt(ridesUsed, N0) THEN FDiv(dailyTarget, N10) ELSE N0)

\* minDollars = ridesUsed > 0 ? dailyTarget / ridesUsed : 0
mk(dailyTarget, label, ridesUsed, dpmFloor) ==
    mkRow(label, ridesUsed, dpmFloor,
          IF FGt(ridesUsed, N0) THEN FDiv(dailyTarget, ridesUsed) ELSE N0)

\* the three rows, the floors being those of DPM_FLOORS (the en dash of
\* the labels is written as a hyphen)
thresholdRows(floors, dailyTarget) ==
    <<mk(dailyTarget, "10 rides", N10, floors.r10),
      mk(dailyTarget, "10-20 rides (using 20)", N20, floors.r10to20),
      mk(dailyTarget, "20-25 rides (using 25)", N25, floors.r20to25)>>

\* DPM_FLOORS is read from the module's objects as they are when the call
\* is made
buildPlannerThresholdRows(dailyTarget) ==
    thresholdRows(shared.DPM_FLOORS, dailyTarget)

\* 0.3, 0.6; 8, 1.08, 10; 15, 1.0, 4; 25, 0.95, 2
ESTIMATOR_CONSTANTS ==
    [IDLE_PCT     |-> Val("fin", 1, <<13107, 26214, 19660, 153>>, -54),
     BASE_PER_MIN |-> Val("fin", 1, <<13107, 26214, 19660, 153>>, -53),
     RIDE_MIX     |->
        [short  |-> [avgMin       |-> Val("fin", 1, <<0, 0, 0, 128>>, -49),
                     rateMult     |->
                        Val("fin", 1, <<24904, 10485, 7864, 138>>, -52),
                     defaultCount |-> Val("fin", 1, <<0, 0, 0, 160>>, -49)],
         medium |-> [avgMin       |-> Val("fin", 1, <<0, 0, 0, 240>>, -49),
                     rateMult     |-> Val("fin", 1, <<0, 0, 0, 128>>, -52),
                     defaultCount |-> Val("fin", 1, <<0, 0, 0, 128>>, -50)],
         long   |-> [avgMin       |-> Val("fin", 1, <<0, 0, 0, 200>>, -48),
                     rateMult     |->
                        Val("fin", 1, <<26214, 19660, 6553, 243>>, -53),
                     defaultCount |-> Val("fin", 1, <<0, 0, 0, 128>>, -51)]]]

\* every literal above is the decimal it spells, correctly rounded
LiteralsRound ==
    LET mix == ESTIMATOR_CONSTANTS.RIDE_MIX
    IN  /\ N1 = Num(1) /\ N60 = Num(60) /\ N95 = Num(95) /\ N100 = Num(100)
        /\ Tenth = Dec(1, 10)
        /\ ESTIMATOR_CONSTANTS.IDLE_PCT = Dec(3, 10)
        /\ ESTIMATOR_CONSTANTS.BASE_PER_MIN = Dec(6, 10)
        /\ mix.short.avgMin = Num(8)
        /\ mix.short.rateMult = Dec(108, 100)
        /\ mix.short.defaultCount = Num(10)
        /\ mix.medium.avgMin = Num(15)
        /\ mix.medium.rateMult = Num(1)
        /\ mix.medium.defaultCount = Num(4)
        /\ mix.long.avgMin = Num(25)
        /\ mix.long.rateMult = Dec(95, 100)
        /\ mix.long.defaultCount = Num(2)
        /\ N10 = Num(10) /\ N20 = Num(20) /\ N25 = Num(25)
        /\ DPM_FLOORS.r10 = Dec(14, 10)
        /\ DPM_FLOORS.r10to20 = Dec(17, 10)
        /\ DPM_FLOORS.r20to25 = Dec(24, 10)

patternMinutes ==
    LET mix == ESTIMATOR_CONSTANTS.RIDE_MIX
    IN  FAdd(FAdd(FMul(mix.short.defaultCount, mix.short.avgMin),
                  FMul(mix.medium.defaultCount, mix.medium.avgMin)),
             FMul(mix.long.defaultCount, mix.long.avgMin))

\* estimatorResult with the blended earnings of the day per active hour
\* as blendedPerHr
estimatorResultPerActiveHour(base, safeDays, activeMinutesPerDay, scale, dailyCounts, perMin, dailyEarningsFloor, dailyEarningsBlended, weightedMultiplier) ==
    [activeMinutesPerDay    |-> activeMinutesPerDay,
     dailyCounts            |-> dailyCounts,
     perMin                 |-> perMin,
     dailyEarningsFloor     |-> dailyEarningsFloor,
     dailyEarningsBlended   |-> dailyEarningsBlended,
     monthlyEarningsFloor   |-> FMul(dailyEarningsFloor, safeDays),
     monthlyEarningsBlended |-> FMul(dailyEarningsBlended, safeDays),
     blendedPerHr           |->
        FDiv(dailyEarningsBlended, FDiv(activeMinutesPerDay, N60)),
     scale                  |-> scale]

\* the monthly figures, blendedPerHr and the record
\* computeEstimatorMetrics returns
estimatorResult(base, safeDays, activeMinutesPerDay, scale, dailyCounts, perMin, dailyEarningsFloor, dailyEarningsBlended, weightedMultiplier) ==
    [activeMinutesPerDay    |-> activeMinutesPerDay,
     dailyCounts            |-> dailyCounts,
     perMin                 |-> perMin,
     dailyEarningsFloor     |-> dailyEarningsFloor,
     dailyEarningsBlended   |-> dailyEarningsBlended,
     monthlyEarningsFloor   |-> FMul(dailyEarningsFloor, safeDays),
     monthlyEarningsBlended |-> FMul(dailyEarningsBlended, safeDays),
     blendedPerHr           |-> FMul(FMul(base, weightedMultiplier), N60),
     scale                  |-> scale]

\* dailyEarningsFloor, dailyEarningsBlended and weightedMultiplier
estimatorEarnings(mix, base, safeDays, activeMinutesPerDay, scale, dailyCounts, perMin) ==
    estimatorResult(base, safeDays, activeMinutesPerDay, scale, dailyCounts,
        perMin,
        FMul(activeMinutesPerDay, base),
        FAdd(FAdd(FMul(FMul(dailyCounts.short, mix.short.avgMin),
                       perMin.short),
                  FMul(FMul(dailyCounts.medium, mix.medium.avgMin),
                       perMin.medium)),
             FMul(FMul(dailyCounts.long, mix.long.avgMin), perMin.long)),
        FDiv(FAdd(FAdd(FMul(mix.short.avgMin, mix.short.rateMult),
                       FMul(mix.medium.avgMin, mix.medium.rateMult)),
                  FMul(mix.long.avgMin, mix.long.rateMult)),
             patternMinutes))

\* estimatorCounts with the base rate for every category
estimatorCountsFlatRate(mix, base, safeDays, activeMinutesPerDay, scale) ==
    estimatorEarnings(mix, base, safeDays, activeMinutesPerDay, scale,
        [short  |-> FMul(mix.short.defaultCount, scale),
         medium |-> FMul(mix.medium.defaultCount, scale),
         long   |-> FMul(mix.long.defaultCount, scale)],
        [short |-> base, medium |-> base, long |-> base])

\* estimatorCounts with the minutes of a ride as the count of its category
estimatorCountsByMinutes(mix, base, safeDays, activeMinutesPerDay, scale) ==
    estimatorEarnings(mix, base, safeDays, activeMinutesPerDay, scale,
        [short  |-> FMul(mix.short.avgMin, scale),
         medium |-> FMul(mix.medium.avgMin, scale),
         long   |-> FMul(mix.long.avgMin, scale)],
        [short  |-> FMul(base, mix.short.rateMult),
         medium |-> FMul(base, mix.medium.rateMult),
         long   |-> FMul(base, mix.long.rateMult)])

\* dailyCounts and perMin
estimatorCounts(mix, base, safeDays, activeMinutesPerDay, scale) ==
    estimatorEarnings(mix, base, safeDays, activeMinutesPerDay, scale,
        [short  |-> FMul(mix.short.defaultCount, scale),
         medium |-> FMul(mix.medium.defaultCount, scale),
         long   |-> FMul(mix.long.defaultCount, scale)],
        [short  |-> FMul(base, mix.short.rateMult),
         medium |-> FMul(base, mix.medium.rateMult),
         long   |-> FMul(base, mix.long.rateMult)])

\* scale = patternMinutes > 0 ? activeMinutesPerDay / patternMinutes : 0
estimatorScale(mix, base, safeDays, activeMinutesPerDay) ==
    estimatorCounts(mix, base, safeDays, activeMinutesPerDay,
        IF FGt(patternMinutes, N0)
        THEN FDiv(activeMinutesPerDay, patternMinutes) ELSE N0)

\* estimatorClamped with the idle share in place of the active share:
\* safeHours * 60 * IDLE_PCT
estimatorClampedIdleShare(constants, safeHours, safeDays) ==
    estimatorScale(constants.RIDE_MIX,
                   constants.BASE_PER_MIN,
                   safeDays,
                   FMul(FMul(safeHours, N60), constants.IDLE_PCT))

\* activeMinutesPerDay = safeHours * 60 * (1 - IDLE_PCT)
estimatorClamped(constants, safeHours, safeDays) ==
    estimatorScale(constants.RIDE_MIX,
                   constants.BASE_PER_MIN,
                   safeDays,
                   FMul(FMul(safeHours, N60),
                        FSub(N1, constants.IDLE_PCT)))

\* ESTIMATOR_CONSTANTS is read from the module's objects as they are when
\* the call is made
computeEstimatorMetrics(input) ==
    estimatorClamped(shared.ESTIMATOR_CONSTANTS,
                     ClampZero(input.hoursPerDay),
                     ClampZero(input.daysPerMonth))

(***************************************************************************)
(* src/src/planner.ts                                                      *)
(***************************************************************************)
\* sanitizeDaysInMonth with numeric <= 0 in place of numeric < 1
sanitizeNonPositive(value, fallback) ==
    LET numeric == ToNumber(value)
    IN  IF ~IsFinite(numeric) \/ ~FGt(numeric, N0) THEN fallback
        ELSE numeric

sanitizeDaysInMonth(value, fallback) ==
    LET numeric == ToNumber(value)
    IN  IF ~IsFinite(numeric) \/ FLt(numeric, N1) THEN fallback
        ELSE numeric

\* the call computePlannerMetrics makes: sanitizeDaysInMonth(daysInMonth),
\* the fallback left to its default of 1
sanitizeCall(daysInMonth) ==
    [args |-> <<daysInMonth>>, ret |-> sanitizeDaysInMonth(daysInMonth, N1)]

\* what computePlannerMetrics of planner.ts returns (`ret`) and the calls
\* of sanitizeDaysInMonth it has made, in order (`calls`)
plannerTsResult(call, dailyTarget, effectiveHours, dphAllIn, dphActive) ==
    [ret   |-> [dailyTarget    |-> dailyTarget,
                dphAllIn       |-> dphAllIn,
                dphActive      |-> dphActive,
                effectiveHours |-> effectiveHours],
     calls |-> <<call.args>>]

\* dphAllIn and dphActive
plannerTsRates(call, safeHours, dailyTarget, effectiveHours) ==
    plannerTsResult(call, dailyTarget, effectiveHours,
                    FDiv(dailyTarget, safeHours),
                    FDiv(dailyTarget, effectiveHours))

\* plannerTsClamped dividing by the clamped argument of the call in place
\* of what the call returned
plannerTsClampedRawDays(safeHours, safeGoal, call, pctIdle) ==
    plannerTsRates(call, safeHours,
                   FDiv(safeGoal, ClampZero(call.args[1])),
                   MathMax(Tenth, FMul(safeHours, FSub(N1, pctIdle))))

\* dailyTarget and effectiveHours; safeDays is what the call returned
plannerTsClamped(safeHours, safeGoal, call, pctIdle) ==
    plannerTsRates(call, safeHours,
                   FDiv(safeGoal, call.ret),
                   MathMax(Tenth, FMul(safeHours, FSub(N1, pctIdle))))

plannerComputePlannerMetrics(input) ==
    plannerTsClamped(ClampTenth(input.hoursPerDay),
                     ClampZero(input.earningsGoal),
                     sanitizeCall(input.daysInMonth),
                     ClampIdle(input.noRidePercent))


(***************************************************************************)
(* The inputs.  Each field of an input record takes a plain value (a       *)
(* valid number: the values of the tests, of the README and of the         *)
(* component defaults, and the edges 0 and 0.1) or an odd one (negative,   *)
(* NaN, an infinity, undefined).  An input record has at most MaxOddRoad   *)
(* (MaxOddPlanner) odd fields.                                             *)
(***************************************************************************)
MaxOddRoad == 1

MaxOddPlanner == 2

MaxDays == 31

\* the largest monthly goal, in hundreds of dollars
MaxGoal == 65

\* the number of calls of a session
MaxCalls == 3

OddValues == {Num(-3), NaN, Inf(1), Inf(-1), Undefined}

\* the largest finite number, 1.7976931348623157e308
MaxValue == Val("fin", 1, BSub(BShl(<<1>>, 53), <<1>>), 971)

\* the smallest positive number, 5e-324
MinValue == Val("fin", 1, <<1>>, -1074)

\* the record r of sets of integers as numbers: each n stands for n / 10
TenthsOf(r) == [f \in DOMAIN r |-> {Dec(n, 10) : n \in r[f]}]

\* the union, field by field, of records of sets
Merged(a, b, c) == [f \in DOMAIN a |-> a[f] \cup b[f] \cup c[f]]

\* the number of fields of r that hold no plain value
OddCount(r, plain) == Cardinality({f \in DOMAIN r : r[f] \notin plain[f]})

\* the records with at most `most` odd fields
AtMostOdd(records, plain, most) ==
    {r \in records : OddCount(r, plain) <= most}

RoadPlain ==
    TenthsOf([minutes     |-> {1, 120, 150},
              miles       |-> {0, 50},
              offer       |-> {89, 90, 100},
              perMinFloor |-> {0, 6, 35},
              dpmFloor    |-> {17, 18}])

RoadRecords(values) ==
    [minutes     : values.minutes \cup OddValues,
     miles       : values.miles \cup OddValues,
     offer       : values.offer \cup OddValues,
     perMinFloor : values.perMinFloor \cup OddValues,
     dpmFloor    : values.dpmFloor \cup OddValues]

RoadInputsOver(plain) == AtMostOdd(RoadRecords(plain), plain, MaxOddRoad)

RoadInputs == RoadInputsOver(RoadPlain)

PlannerPlain ==
    TenthsOf([earningsGoal |-> {0, 16000, 65000},
              daysInMonth  |-> {10, 280, 300},
              hoursPerDay  |-> {1, 60, 100},
              idlePercent  |-> {0, 300, 350, 950}])

\* values that are odd for one field of the planner only: a day count
\* below 1 (0, 0.5, the smallest positive number), no hours, an idle share
\* of 100 %, the largest number as the goal
PlannerOdd ==
    Merged(TenthsOf([earningsGoal |-> {},
                     daysInMonth  |-> {0, 5},
                     hoursPerDay  |-> {0},
                     idlePercent  |-> {1000}]),
           [earningsGoal |-> {MaxValue},
            daysInMonth  |-> {MinValue},
            hoursPerDay  |-> {},
            idlePercent  |-> {}],
           [f \in {"earningsGoal", "daysInMonth", "hoursPerDay",
                   "idlePercent"} |-> OddValues])

PlannerRecords(values) ==
    [earningsGoal : values.earningsGoal,
     daysInMonth  : values.daysInMonth,
     hoursPerDay  : values.hoursPerDay,
     idlePercent  : values.idlePercent]

PlannerInputsOver(plain) ==
    AtMostOdd(PlannerRecords(Merged(plain, PlannerOdd, plain)), plain,
              MaxOddPlanner)

\* the goals that ask for one dollar per active minute:
\* 60 x days x hours x (1 - idle / 100)
PlannerDollarAMinute ==
    {[earningsGoal |-> Num((6 * d * h * (100 - i)) \div 10),
      daysInMonth  |-> Num(d),
      hoursPerDay  |-> Num(h),
      idlePercent  |-> Num(i)] : d \in {20, 30}, h \in {3, 6}, i \in {0, 10}}

PlannerInputs == PlannerInputsOver(PlannerPlain) \cup PlannerDollarAMinute

\* planner.ts names the idle share noRidePercent
AsPlannerTs(r) ==
    [hoursPerDay   |-> r.hoursPerDay,
     earningsGoal  |-> r.earningsGoal,
     daysInMonth   |-> r.daysInMonth,
     noRidePercent |-> r.idlePercent]

EstimatorPlain ==
    TenthsOf([hoursPerDay  |-> {0, 1, 5, 10, 30, 60, 80, 100, 120, 240},
              daysPerMonth |-> {0, 10, 200, 250, 280, 300, 310}])

EstimatorRecords(values) ==
    [hoursPerDay  : values.hoursPerDay \cup OddValues,
     daysPerMonth : values.daysPerMonth \cup OddValues]

EstimatorInputs == EstimatorRecords(EstimatorPlain)

\* daily targets: a goal of 0, 100, ... dollars a month over the days of
\* a month, a day, or a count of days below one, and the numbers that are
\* no valid target
RowsInputs ==
    {FDiv(Num(100 * g), d) :
        g \in 0..MaxGoal, d \in {Num(1), Num(28), Num(30), Dec(1, 2)}}
        \cup {Num(-3), NaN, Inf(1), Inf(-1), MaxValue, MinValue}

\* day counts in steps of a quarter, from -2 to MaxDays, and the values
\* that are not finite numbers
SanitizeInputs ==
    {Dec(k, 4) : k \in (-8)..(4 * MaxDays)}
        \cup OddValues \cup {Zero(-1), Str, Null, MaxValue}

(***************************************************************************)
(* The state: the call of a function that is under way or has just         *)
(* returned, and the calls completed before it.  `fn` is the function,     *)
(* `input` its argument, `pc` is "call" before it has run and "done"       *)
(* after, `output` is what it returned and `calls` the calls of            *)
(* sanitizeDaysInMonth made while it ran.  `earlier` is the sequence of    *)
(* the calls completed before this one, each with its function, argument   *)
(* and result.  `tab` is the tab of EarningsSuite and `mounted` the       *)
(* components it has mounted, each with the state it holds and what it     *)
(* renders; nothing is mounted while the functions are called directly.    *)
(***************************************************************************)
VARIABLES fn, input, output, calls, pc, earlier, tab, mounted

vars == <<fn, input, output, calls, pc, earlier, shared, tab, mounted>>

NoOutput == [none |-> TRUE]

\* the objects calculations.ts exports, as the module creates them
Exported ==
    [ESTIMATOR_CONSTANTS |-> ESTIMATOR_CONSTANTS, DPM_FLOORS |-> DPM_FLOORS]

Start(f, inputs) ==
    /\ fn = f
    /\ input \in inputs
    /\ output = NoOutput
    /\ calls = <<>>
    /\ pc = "call"
    /\ earlier = <<>>
    /\ shared = Exported
    /\ tab = "road"
    /\ mounted = <<>>

InitRoad == Start("computeOnTheRoadMetrics", RoadInputs)

InitPlanner == Start("computePlannerMetrics", PlannerInputs)

InitPlannerTs ==
    Start("planner.computePlannerMetrics",
          {AsPlannerTs(r) : r \in PlannerInputs})

InitSanitize ==
    Start("sanitizeDaysInMonth", {[value |-> v] : v \in SanitizeInputs})

InitEstimator == Start("computeEstimatorMetrics", EstimatorInputs)

InitRows ==
    Start("buildPlannerThresholdRows",
          {[dailyTarget |-> v] : v \in RowsInputs})

Init ==
    \/ InitRoad
    \/ InitPlanner
    \/ InitPlannerTs
    \/ InitSanitize
    \/ InitEstimator
    \/ InitRows

\* Return, the call having doubled BASE_PER_MIN of ESTIMATOR_CONSTANTS
ReturnHavingWritten(f, value, made) ==
    /\ pc = "call"
    /\ fn = f
    /\ output' = value
    /\ calls' = made
    /\ pc' = "done"
    /\ shared' = [shared EXCEPT !.ESTIMATOR_CONSTANTS.BASE_PER_MIN
                                  = FMul(@, Num(2))]
    /\ UNCHANGED <<fn, input, earlier, tab, mounted>>

Return(f, value, made) ==
    /\ pc = "call"
    /\ fn = f
    /\ output' = value
    /\ calls' = made
    /\ pc' = "done"
    /\ UNCHANGED <<fn, input, earlier, shared, tab, mounted>>

OnTheRoad ==
    Return("computeOnTheRoadMetrics", computeOnTheRoadMetrics(input), <<>>)

Planner ==
    Return("computePlannerMetrics", computePlannerMetrics(input), <<>>)

\* r is what the call returned together with the calls it made
PlannerTsReturn(r) == Return("planner.computePlannerMetrics", r.ret, r.calls)

PlannerTs == PlannerTsReturn(plannerComputePlannerMetrics(input))

Sanitize ==
    Return("sanitizeDaysInMonth", sanitizeDaysInMonth(input.value, N1), <<>>)

Estimator ==
    Return("computeEstimatorMetrics", computeEstimatorMetrics(input), <<>>)

Rows ==
    Return("buildPlannerThresholdRows",
           buildPlannerThresholdRows(input.dailyTarget), <<>>)

Next ==
    \/ OnTheRoad
    \/ Planner
    \/ PlannerTs
    \/ Sanitize
    \/ Estimator
    \/ Rows

Spec == Init /\ [][Next]_vars

SpecRoad == InitRoad /\ [][OnTheRoad]_vars

SpecPlanner == InitPlanner /\ [][Planner]_vars

SpecPlannerTs == InitPlannerTs /\ [][PlannerTs]_vars

SpecSanitize == InitSanitize /\ [][Sanitize]_vars

SpecEstimator == InitEstimator /\ [][Estimator]_vars

SpecRows == InitRows /\ [][Rows]_vars

(***************************************************************************)
(* A session: the views call the functions again and again, one call       *)
(* after the other, MaxCalls calls at most.  The arguments are those the   *)
(* views start with and those of the tests.                                *)
(***************************************************************************)
SessionInputs ==
    "computeOnTheRoadMetrics" :>
        {[minutes     |-> Num(12),
          miles       |-> Num(5),
          offer       |-> Num(10),
          perMinFloor |-> Dec(6, 10),
          dpmFloor    |-> Dec(17, 10)]}
    @@ "computePlannerMetrics" :>
        {[earningsGoal |-> Num(1600),
          daysInMonth  |-> Num(30),
          hoursPerDay  |-> Num(6),
          idlePercent  |-> Num(30)],
         [earningsGoal |-> Num(6500),
          daysInMonth  |-> Num(28),
          hoursPerDay  |-> Num(10),
          idlePercent  |-> Num(35)]}
    @@ "buildPlannerThresholdRows" :>
        {[dailyTarget |-> FDiv(Num(6500), Num(28))]}
    @@ "computeEstimatorMetrics" :>
        {[hoursPerDay |-> Num(6), daysPerMonth |-> Num(25)],
         [hoursPerDay |-> N0, daysPerMonth |-> N0]}
    @@ "sanitizeDaysInMonth" :> {[value |-> Dec(1, 2)]}
    @@ "planner.computePlannerMetrics" :>
        {[hoursPerDay   |-> Num(6),
          earningsGoal  |-> Num(1600),
          daysInMonth   |-> N0,
          noRidePercent |-> Num(30)]}

InitSession ==
    \E f \in DOMAIN SessionInputs : Start(f, SessionInputs[f])

\* the call that has returned, as it is kept in `earlier`
Completed == [fn |-> fn, input |-> input, output |-> output]

\* the next call of the session, of any of the functions
CallNext ==
    /\ pc = "done"
    /\ Len(earlier) + 1 < MaxCalls
    /\ \E f \in DOMAIN SessionInputs :
          /\ fn' = f
          /\ input' \in SessionInputs[f]
    /\ earlier' = Append(earlier, Completed)
    /\ output' = NoOutput
    /\ calls' = <<>>
    /\ pc' = "call"
    /\ UNCHANGED <<shared, tab, mounted>>

NextSession == Next \/ CallNext

SpecSession == InitSession /\ [][NextSession]_vars


(***************************************************************************)
(* The on-the-road calculator                                              *)
(***************************************************************************)
RoadDone == pc = "done" /\ fn = "computeOnTheRoadMetrics"

\* x === y on numbers
SameNumber(x, y) == ~IsNaN(x) /\ ~IsNaN(y) /\ Cmp(x, y) = 0

\* a finite number >= 0
NonNegative(v) == v.k = "fin" /\ (v.s = 1 \/ IsZero(v))

\* the ride of the test of the combined rule: 15 minutes, 5 miles, floors
\* of 0.6 $/min and 1.7 $/mi
TestRide ==
    /\ input.minutes = Num(15)
    /\ input.miles = Num(5)
    /\ input.perMinFloor = Dec(6, 10)
    /\ input.dpmFloor = Dec(17, 10)

\* C1: decisionCombined is "accept" exactly when the clamped offer is >=
\* max(minByTime, minByMiles) and "reject" otherwise; on the test ride an
\* offer of 9.0, which equals the threshold, is accepted and an offer of
\* 8.9 is rejected.
C1_CombinedDecision ==
    RoadDone =>
        /\ output.decisionCombined \in {"accept", "reject"}
        /\ output.decisionCombined = "accept"
            <=> FGe(ClampZero(input.offer),
                    MathMax(output.minByTime, output.minByMiles))
        /\ (TestRide /\ input.offer = Num(9)) =>
              /\ output.decisionCombined = "accept"
              /\ SameNumber(input.offer,
                            MathMax(output.minByTime, output.minByMiles))
        /\ (TestRide /\ input.offer = Dec(89, 10)) =>
              output.decisionCombined = "reject"

\* the test ride, offered exactly its threshold, has been accepted
C1_ThresholdOfferAccepted ==
    /\ RoadDone
    /\ TestRide
    /\ input.offer = Num(9)
    /\ SameNumber(input.offer, output.minCombined)
    /\ output.decisionCombined = "accept"

\* Math.ceil(product * 100) / 100
CeilToCents(product) == FDiv(FCeil(FMul(product, N100)), N100)

\* minutes, miles and both floors are numbers >= 0
RoadFloorsValid ==
    /\ NonNegative(input.minutes)
    /\ NonNegative(input.miles)
    /\ NonNegative(input.perMinFloor)
    /\ NonNegative(input.dpmFloor)

\* C2 as the specification states it: for minutes, miles and floors >= 0
\* each minimum is ceil(product x 100) / 100 and is never smaller than the
\* product.
C2_NeverBelowProduct ==
    (RoadDone /\ RoadFloorsValid) =>
        /\ output.minByTime
             = CeilToCents(FMul(input.minutes, input.perMinFloor))
        /\ output.minByMiles
             = CeilToCents(FMul(input.miles, input.dpmFloor))
        /\ FGe(output.minByTime, FMul(input.minutes, input.perMinFloor))
        /\ FGe(output.minByMiles, FMul(input.miles, input.dpmFloor))

\* 2^52 - 1
RoundingScale == BSub(BShl(<<1>>, 52), <<1>>)

\* least(a, b) is the smaller of two integers
Least(a, b) == IF a <= b THEN a ELSE b

\* fare >= product x (1 - 2^-52), compared exactly: both sides are scaled
\* to integers
WithinRounding(fare, product) ==
    \/ IsInf(fare) /\ fare.s = 1
    \/ /\ IsFinite(fare)
       /\ IsFinite(product)
       /\ BCmp(BShl(fare.m, fare.e - Least(fare.e, product.e) + 52),
               BMul(BShl(product.m, product.e - Least(fare.e, product.e)),
                    RoundingScale)) >= 0

\* C2: for minutes, miles and floors >= 0 each minimum is
\* ceil(product x 100) / 100 in binary64 arithmetic; it is never smaller
\* than the product by more than the rounding of the two operations, a
\* relative 2^-52.
C2_CeilToCentsWithinRounding ==
    (RoadDone /\ RoadFloorsValid) =>
        /\ output.minByTime
             = CeilToCents(FMul(input.minutes, input.perMinFloor))
        /\ output.minByMiles
             = CeilToCents(FMul(input.miles, input.dpmFloor))
        /\ WithinRounding(output.minByTime,
                          FMul(input.minutes, input.perMinFloor))
        /\ WithinRounding(output.minByMiles,
                          FMul(input.miles, input.dpmFloor))

\* 0.1 minutes at 3.5 $/min: the minimum, 0.35, is below the product,
\* 0.35000000000000003
C2_MinimumBelowProduct ==
    /\ RoadDone
    /\ RoadFloorsValid
    /\ input.minutes = Dec(1, 10)
    /\ input.perMinFloor = Dec(35, 10)
    /\ output.minByTime = Dec(35, 100)
    /\ FLt(output.minByTime, FMul(input.minutes, input.perMinFloor))

\* the minimum named by binding
BindingMinimum ==
    IF output.binding = "time" THEN output.minByTime ELSE output.minByMiles

\* C3: minCombined = max(minByTime, minByMiles); binding is "time" exactly
\* when minByTime >= minByMiles and "miles" otherwise, so "time" on a tie;
\* minCombined equals the minimum named by binding.
C3_CombinedIsBindingMinimum ==
    RoadDone =>
        /\ output.minCombined = MathMax(output.minByTime, output.minByMiles)
        /\ output.binding \in {"time", "miles"}
        /\ output.binding = "time"
             <=> FGe(output.minByTime, output.minByMiles)
        /\ SameNumber(output.minByTime, output.minByMiles)
             => output.binding = "time"
        /\ SameNumber(output.minCombined, BindingMinimum)

\* negative, NaN or not a number
NegativeOrNotNumber(v) ==
    \/ v.k \notin {"fin", "inf"}
    \/ v.k = "inf" /\ v.s = -1
    \/ v.k = "fin" /\ v.s = -1 /\ ~IsZero(v)

\* the input with every such field replaced by 0
BadFieldsAsZero(r) ==
    [f \in DOMAIN r |-> IF NegativeOrNotNumber(r[f]) THEN N0 ELSE r[f]]

\* C4: a negative, NaN or non-numeric field of the input counts as 0: the
\* result is the result of the call with each such field replaced by 0,
\* and it is a result, not an error.
C4_BadFieldsCountAsZero ==
    RoadDone =>
        /\ output = computeOnTheRoadMetrics(BadFieldsAsZero(input))
        /\ DOMAIN output = {"minByTime", "minByMiles", "minCombined",
                            "binding", "decisionTime", "decisionMiles",
                            "decisionCombined"}

\* a call with NaN minutes has returned the minimum by time of 0 minutes
C4_NaNMinutesCountAsZero ==
    /\ RoadDone
    /\ IsNaN(input.minutes)
    /\ BadFieldsAsZero(input).minutes = N0
    /\ output.minByTime = N0


(***************************************************************************)
(* The three calculators, and the two planners                             *)
(***************************************************************************)
PlannerDone == pc = "done" /\ fn = "computePlannerMetrics"

PlannerTsDone == pc = "done" /\ fn = "planner.computePlannerMetrics"

EstimatorDone == pc = "done" /\ fn = "computeEstimatorMetrics"

\* every value of the record r is a finite number
AllFinite(r) == \A f \in DOMAIN r : IsFinite(r[f])

\* C5: whatever the fields of the input (NaN, an infinity, negative), no
\* numeric field of what a calculator returns is NaN or infinite.
C5_OutputsFinite ==
    /\ RoadDone =>
          /\ IsFinite(output.minByTime)
          /\ IsFinite(output.minByMiles)
          /\ IsFinite(output.minCombined)
    /\ PlannerDone => AllFinite(output)
    /\ EstimatorDone =>
          /\ AllFinite(output.dailyCounts)
          /\ AllFinite(output.perMin)
          /\ \A f \in DOMAIN output \ {"dailyCounts", "perMin"} :
                IsFinite(output[f])

\* Number(daysInMonth) is not finite or is below 1
DaysBelowOneOrNotFinite(days) ==
    ~IsFinite(ToNumber(days)) \/ FLt(ToNumber(days), N1)

\* C6: computePlannerMetrics of calculations.ts replaces a daysInMonth
\* that is not finite or is below 1 by 1: dailyTarget is then the clamped
\* earningsGoal divided by 1.
C6_DaysReplacedByOne ==
    (PlannerDone /\ DaysBelowOneOrNotFinite(input.daysInMonth)) =>
        output.dailyTarget = FDiv(ClampZero(input.earningsGoal), N1)

\* Number(daysInMonth) is 0, NaN or negative
DaysZeroNaNOrNegative(days) ==
    \/ IsNaN(ToNumber(days))
    \/ IsZero(ToNumber(days))
    \/ ToNumber(days).s = -1

\* C7: computePlannerMetrics of planner.ts calls sanitizeDaysInMonth once,
\* with the daysInMonth it was given, and dailyTarget is the goal (clamped
\* to >= 0) divided by what that call returns; for daysInMonth 0, NaN or
\* negative that is the goal itself.
C7_SanitizedOnce ==
    PlannerTsDone =>
        /\ calls = << <<input.daysInMonth>> >>
        /\ output.dailyTarget
             = FDiv(ClampZero(input.earningsGoal),
                    sanitizeDaysInMonth(input.daysInMonth, N1))
        /\ DaysZeroNaNOrNegative(input.daysInMonth) =>
              /\ output.dailyTarget = ClampZero(input.earningsGoal)
              /\ NonNegative(input.earningsGoal) =>
                    output.dailyTarget = input.earningsGoal

\* a call with daysInMonth 0 and a goal of 1600 has made one call of
\* sanitizeDaysInMonth and returned a dailyTarget of 1600
C7_ZeroDaysGoalKept ==
    /\ PlannerTsDone
    /\ input.daysInMonth = N0
    /\ input.earningsGoal = Num(1600)
    /\ Len(calls) = 1
    /\ output.dailyTarget = Num(1600)

SanitizeDone == pc = "done" /\ fn = "sanitizeDaysInMonth"

\* C8: sanitizeDaysInMonth(value) returns a finite number >= 1: 1 when
\* value is NaN, an infinity or below 1, and value itself when it is
\* finite and >= 1.
C8_SanitizedDays ==
    SanitizeDone =>
        /\ IsFinite(output)
        /\ FGe(output, N1)
        /\ DaysBelowOneOrNotFinite(input.value) => output = N1
        /\ ~DaysBelowOneOrNotFinite(input.value) => output = input.value

\* 0.5 has been replaced by 1
C8_HalfDayReplaced ==
    /\ SanitizeDone
    /\ input.value = Dec(1, 2)
    /\ output = N1

\* C9: when daysInMonth is below 1 or not finite and the other inputs are
\* finite, every field either computePlannerMetrics returns is finite.
C9_PlannerFieldsFinite ==
    /\ (/\ PlannerDone
        /\ DaysBelowOneOrNotFinite(input.daysInMonth)
        /\ IsFinite(input.earningsGoal)
        /\ IsFinite(input.hoursPerDay)
        /\ IsFinite(input.idlePercent)) => AllFinite(output)
    /\ (/\ PlannerTsDone
        /\ DaysBelowOneOrNotFinite(input.daysInMonth)
        /\ IsFinite(input.earningsGoal)
        /\ IsFinite(input.hoursPerDay)
        /\ IsFinite(input.noRidePercent)) => AllFinite(output)

\* goal >= 0, days >= 1, hours >= 0.1 and idle in [0, 95]
PlannerInputValid ==
    /\ NonNegative(input.earningsGoal)
    /\ IsFinite(input.daysInMonth) /\ FGe(input.daysInMonth, N1)
    /\ IsFinite(input.hoursPerDay) /\ FGe(input.hoursPerDay, Tenth)
    /\ NonNegative(input.idlePercent) /\ FGe(N95, input.idlePercent)

\* the worked example of the README: 6500 in 28 days of 10 hours, 35 % idle
WorkedExample ==
    /\ input.earningsGoal = Num(6500)
    /\ input.daysInMonth = Num(28)
    /\ input.hoursPerDay = Num(10)
    /\ input.idlePercent = Num(35)

\* v is n / d when rounded to the digits of n / d: |v - n / d| <= 1 / 2d
RoundsTo(v, n, d) ==
    /\ FGe(v, Dec(2 * n - 1, 2 * d))
    /\ FGe(Dec(2 * n + 1, 2 * d), v)

\* C10: for valid inputs dailyTarget = goal / days, effectiveHours =
\* max(0.1, hours x (1 - idle / 100)), dphAllIn = dailyTarget / hours,
\* dphActive = dailyTarget / effectiveHours and perMinuteActive =
\* dphActive / 60; the worked example gives 232.14, 6.5, 35.71, 23.21 and
\* 0.595.
C10_PlannerFormulas ==
    (PlannerDone /\ PlannerInputValid) =>
        /\ output.dailyTarget = FDiv(input.earningsGoal, input.daysInMonth)
        /\ output.effectiveHours
             = MathMax(Tenth,
                       FMul(input.hoursPerDay,
                            FSub(N1, FDiv(input.idlePercent, N100))))
        /\ output.dphAllIn = FDiv(output.dailyTarget, input.hoursPerDay)
        /\ output.dphActive = FDiv(output.dailyTarget, output.effectiveHours)
        /\ output.perMinuteActive = FDiv(output.dphActive, N60)
        /\ WorkedExample =>
              /\ RoundsTo(output.dailyTarget, 23214, 100)
              /\ RoundsTo(output.effectiveHours, 65, 10)
              /\ RoundsTo(output.dphActive, 3571, 100)
              /\ RoundsTo(output.dphAllIn, 2321, 100)
              /\ RoundsTo(output.perMinuteActive, 595, 1000)

\* the worked example has been computed: 6.5 active hours
C10_WorkedExampleComputed ==
    /\ PlannerDone
    /\ PlannerInputValid
    /\ WorkedExample
    /\ output.effectiveHours = Dec(65, 10)

(***************************************************************************)
(* The planner and the idle share                                          *)
(***************************************************************************)
\* v is a number in [0, 95)
BelowIdleCap(v) == NonNegative(v) /\ FLt(v, N95)

\* idle shares to compare with: those of the inputs, 90 % and 94.9 %
IdleShares == PlannerPlain.idlePercent \cup {Num(90), Dec(949, 10)}

\* the idle shares in [0, 95) above a
HigherIdle(a) == {b \in IdleShares : BelowIdleCap(b) /\ FGt(b, a)}

\* what computePlannerMetrics returns for the input of this call with
\* idlePercent replaced by b
WithIdle(b) == computePlannerMetrics([input EXCEPT !.idlePercent = b])

\* v is a number above 0 and below Infinity
PositiveFinite(v) == IsFinite(v) /\ FGt(v, N0)

RateAfterRaise(raised) ==
    /\ ~IsNaN(output.dphActive) => FGe(raised.dphActive, output.dphActive)
    /\ (/\ PositiveFinite(output.dphActive)
        /\ FLt(raised.effectiveHours, output.effectiveHours)) =>
            FGt(raised.dphActive, output.dphActive)
    /\ (\/ IsZero(output.dailyTarget)
        \/ raised.effectiveHours = output.effectiveHours) =>
            raised.dphActive = output.dphActive

TestPlan ==
    /\ input.earningsGoal = Num(1600)
    /\ input.daysInMonth = Num(30)
    /\ input.hoursPerDay = Num(6)
    /\ input.idlePercent = Num(30)

RowsDone == pc = "done" /\ fn = "buildPlannerThresholdRows"

\* the rides and the $/mile floor of the three brackets: 10 rides at
\* 1.40, 20 at 1.70, 25 at 2.40
Brackets ==
    <<[rides |-> 10, floor |-> Dec(140, 100)],
      [rides |-> 20, floor |-> Dec(170, 100)],
      [rides |-> 25, floor |-> Dec(240, 100)]>>

\* C13: buildPlannerThresholdRows(dailyTarget) returns three rows, for
\* 10, 20 and 25 rides in this order; in each row minDollarsPerRide is
\* dailyTarget / ridesUsed and maxMilesPerRide is minDollarsPerRide over
\* the floor of the row: 1.40, 1.70, 2.40.
C13_ThreeRows ==
    RowsDone =>
        /\ Len(output) = 3
        /\ \A i \in 1..3 :
              /\ output[i].ridesUsed = Num(Brackets[i].rides)
              /\ output[i].minDollarsPerRide
                   = FDiv(input.dailyTarget, Num(Brackets[i].rides))
              /\ output[i].maxMilesPerRide
                   = FDiv(output[i].minDollarsPerRide, Brackets[i].floor)

\* the table of the worked example, a daily target of 6500 / 28: 23.21
\* dollars and 16.58 miles a ride at 10 rides, 9.29 dollars and 3.87
\* miles at 25
C13_WorkedExampleRows ==
    /\ RowsDone
    /\ input.dailyTarget = FDiv(Num(6500), Num(28))
    /\ RoundsTo(output[1].minDollarsPerRide, 2321, 100)
    /\ RoundsTo(output[1].maxMilesPerRide, 1658, 100)
    /\ RoundsTo(output[3].minDollarsPerRide, 929, 100)
    /\ RoundsTo(output[3].maxMilesPerRide, 387, 100)

(***************************************************************************)
(* The estimator                                                           *)
(***************************************************************************)
\* hoursPerDay and daysPerMonth are numbers >= 0
EstimatorInputValid ==
    NonNegative(input.hoursPerDay) /\ NonNegative(input.daysPerMonth)

\* the scenario of the tests: 6 hours a day, 25 days a month
Baseline == input.hoursPerDay = Num(6) /\ input.daysPerMonth = Num(25)

\* activeMinutesPerDay = hours x 60 x 0.70, dailyEarningsFloor =
\* activeMinutesPerDay x 0.60, and the monthly earnings are the daily
\* ones x days
EstimatorFormulas ==
    /\ output.activeMinutesPerDay
         = FMul(FMul(input.hoursPerDay, N60), Dec(70, 100))
    /\ output.dailyEarningsFloor
         = FMul(output.activeMinutesPerDay, Dec(60, 100))
    /\ output.monthlyEarningsFloor
         = FMul(output.dailyEarningsFloor, input.daysPerMonth)
    /\ output.monthlyEarningsBlended
         = FMul(output.dailyEarningsBlended, input.daysPerMonth)

\* C14 as stated: for hours >= 0 and days >= 0 the formulas hold, and for
\* 6 hours and 25 days activeMinutesPerDay is 252 and
\* monthlyEarningsFloor is 3780.
C14_BaselineExact ==
    (EstimatorDone /\ EstimatorInputValid) =>
        /\ EstimatorFormulas
        /\ Baseline =>
              /\ output.activeMinutesPerDay = Num(252)
              /\ output.monthlyEarningsFloor = Num(3780)

\* v is below n by no more than a relative 2^-52
JustBelow(v, n) == FLt(v, Num(n)) /\ WithinRounding(v, Num(n))

\* C14: for hours >= 0 and days >= 0 the formulas hold in binary64
\* arithmetic, and for 6 hours and 25 days activeMinutesPerDay and
\* monthlyEarningsFloor are the numbers next below 252 and 3780:
\* 251.99999999999997 and 3779.9999999999995.
C14_BaselineWithinRounding ==
    (EstimatorDone /\ EstimatorInputValid) =>
        /\ EstimatorFormulas
        /\ Baseline =>
              /\ JustBelow(output.activeMinutesPerDay, 252)
              /\ JustBelow(output.monthlyEarningsFloor, 3780)
              /\ output.dailyEarningsFloor = Dec(1512, 10)

\* the baseline has been computed: 151.2 dollars a day at the floor rate
\* and not quite 3780 a month
C14_BaselineComputed ==
    /\ EstimatorDone
    /\ Baseline
    /\ output.dailyEarningsFloor = Dec(1512, 10)
    /\ FLt(output.monthlyEarningsFloor, Num(3780))
    /\ RoundsTo(output.monthlyEarningsFloor, 378000000, 100000)

\* (80 x 1.08 + 60 x 1.00 + 50 x 0.95) / 190, about 1.0205
MixMultiplier ==
    FDiv(FAdd(FAdd(FMul(Num(80), Dec(108, 100)), FMul(Num(60), Num(1))),
              FMul(Num(50), Dec(95, 100))),
         Num(190))

\* Number(hoursPerDay) > 0
HoursPositive == FGt(ToNumber(input.hoursPerDay), N0)

BlendScale == BSub(BShl(<<1>>, 48), <<1>>)

\* x >= y x (1 - 2^-48) for finite x, y >= 0, compared exactly: both
\* sides are scaled to integers
NotFarBelow(x, y) ==
    BCmp(BShl(x.m, x.e - Least(x.e, y.e) + 48),
         BMul(BShl(y.m, y.e - Least(x.e, y.e)), BlendScale)) >= 0

\* x and y are finite and within a relative 2^-48 of each other, or are
\* the same infinity, or both NaN
Alike(x, y) ==
    IF IsFinite(x) /\ IsFinite(y)
    THEN NotFarBelow(x, y) /\ NotFarBelow(y, x)
    ELSE x = y

C16_BaselinePerHour ==
    (EstimatorDone /\ Baseline) =>
        /\ FGe(output.blendedPerHr, Dec(3673, 100))
        /\ FGe(Dec(3675, 100), output.blendedPerHr)

\* C17: whenever hoursPerDay > 0, blendedPerHr is the blended earnings of
\* the day per active hour, dailyEarningsBlended / (activeMinutesPerDay /
\* 60), to within the rounding of the operations.
C17_PerHourOfBlendedDay ==
    (EstimatorDone /\ HoursPositive) =>
        Alike(output.blendedPerHr,
              FDiv(output.dailyEarningsBlended,
                   FDiv(output.activeMinutesPerDay, N60)))

\* avgMinutes x rateMultiplier, summed over the categories:
\* 8 x 1.08 + 15 x 1.00 + 25 x 0.95
TemplateProducts ==
    FAdd(FAdd(FMul(Num(8), Dec(108, 100)), FMul(Num(15), Num(1))),
         FMul(Num(25), Dec(95, 100)))

Returned == IF pc = "done" THEN Append(earlier, Completed) ELSE earlier

\* two calls of the same function with equal arguments have returned
\* equal results
SameInputSameOutput ==
    \A i, j \in 1..Len(Returned) :
        (/\ Returned[i].fn = Returned[j].fn
         /\ Returned[i].input = Returned[j].input) =>
            Returned[i].output = Returned[j].output

\* a call leaves its argument and the exported objects as they were
CallWritesNothing ==
    (pc = "call" /\ pc' = "done") => (input' = input /\ shared' = shared)

ZeroNegativeOrNaN(v) ==
    \/ IsNaN(ToNumber(v))
    \/ IsZero(ToNumber(v))
    \/ ToNumber(v).s = -1

\* Number(v) is 100 or more
HundredOrMore(v) == FGe(ToNumber(v), N100)

\* what was returned has effectiveHours >= 0.1, and rates of 0, not NaN,
\* for a daily target of 0
FlooredHours ==
    /\ FGe(output.effectiveHours, Tenth)
    /\ IsZero(output.dailyTarget) =>
          IsZero(output.dphAllIn) /\ IsZero(output.dphActive)

\* what planner.ts returns for the input r
PlannerTsOf(r) == plannerComputePlannerMetrics(r).ret

\* C20: both computePlannerMetrics floor hoursPerDay at 0.1 and clamp the
\* idle share to [0, 95]: effectiveHours >= 0.1 for every input, nothing
\* is divided by 0, hours of 0, negative or NaN give what hours of 0.1
\* give, and an idle share of 100 or more gives what 95 gives.
C20_HoursAndIdleClamped ==
    /\ PlannerDone =>
          /\ FlooredHours
          /\ FGe(ClampTenth(input.hoursPerDay), Tenth)
          /\ ZeroNegativeOrNaN(input.hoursPerDay) =>
                output
                  = computePlannerMetrics([input EXCEPT !.hoursPerDay = Tenth])
          /\ HundredOrMore(input.idlePercent) =>
                output
                  = computePlannerMetrics([input EXCEPT !.idlePercent = N95])
    /\ PlannerTsDone =>
          /\ FlooredHours
          /\ FGe(ClampTenth(input.hoursPerDay), Tenth)
          /\ ZeroNegativeOrNaN(input.hoursPerDay) =>
                output = PlannerTsOf([input EXCEPT !.hoursPerDay = Tenth])
          /\ HundredOrMore(input.noRidePercent) =>
                output = PlannerTsOf([input EXCEPT !.noRidePercent = N95])

\* 1600 in 30 days with NaN for the hours and an idle share of 100 %:
\* 0.1 effective hours and 533.33 dollars an hour
C20_NoHoursAllIdle ==
    /\ PlannerDone
    /\ input.earningsGoal = Num(1600)
    /\ input.daysInMonth = Num(30)
    /\ IsNaN(input.hoursPerDay)
    /\ input.idlePercent = N100
    /\ output.effectiveHours = Tenth
    /\ RoundsTo(output.dphAllIn, 53333, 100)
    /\ output.dphActive = output.dphAllIn

\* the four fields both computePlannerMetrics return
SharedFields == {"dailyTarget", "dphAllIn", "dphActive", "effectiveHours"}

\* the same number, or NaN twice
SameValue(x, y) == (IsNaN(x) /\ IsNaN(y)) \/ SameNumber(x, y)

\* a and b carry the same value in each of the four fields
SameMetrics(a, b) == \A f \in SharedFields : SameValue(a[f], b[f])

\* C22: computePlannerMetrics of calculations.ts and computePlannerMetrics
\* of planner.ts return the same dailyTarget, dphAllIn, dphActive and
\* effectiveHours for every goal, days, hours and idle share.
C22_ImplementationsAgree ==
    PlannerDone => SameMetrics(output, PlannerTsOf(AsPlannerTs(input)))

\* C23: decisionCombined is "accept" exactly when decisionTime and
\* decisionMiles are both "accept", for every input.
C23_CombinedIsBoth ==
    RoadDone =>
        (output.decisionCombined = "accept"
            <=> (/\ output.decisionTime = "accept"
                 /\ output.decisionMiles = "accept"))

\* 8.9 offered for the test ride passes the mile rule (8.5) and not the
\* minute rule (9): the combined decision is "reject"
C23_OneRuleIsNotEnough ==
    /\ RoadDone
    /\ TestRide
    /\ input.offer = Dec(89, 10)
    /\ output.decisionTime = "reject"
    /\ output.decisionMiles = "accept"
    /\ output.decisionCombined = "reject"

\* offers and trips with every field >= 0: the defaults of the view, the
\* test ride, no minutes, a free minute, and the largest values
RoadGridValues ==
    [minutes     |-> {Num(0), Num(12), Num(15), MaxValue, Inf(1)},
     miles       |-> {Num(0), Num(5)},
     offer       |-> {Dec(89, 10), Num(9), Num(10), Inf(1)},
     perMinFloor |-> {Num(0), Dec(6, 10), Inf(1)},
     dpmFloor    |-> {Dec(17, 10)}]

RoadGrid ==
    [minutes     : RoadGridValues.minutes,
     miles       : RoadGridValues.miles,
     offer       : RoadGridValues.offer,
     perMinFloor : RoadGridValues.perMinFloor,
     dpmFloor    : RoadGridValues.dpmFloor]

InitRoadGrid == Start("computeOnTheRoadMetrics", RoadGrid)

SpecRoadGrid == InitRoadGrid /\ [][OnTheRoad]_vars

\* the verdict for the input with field f raised to v
VerdictWith(f, v) ==
    computeOnTheRoadMetrics([input EXCEPT ![f] = v]).decisionCombined

\* the values of the grid that are above the one field f of the input has
Above(f) == {v \in RoadGridValues[f] : FGt(v, input[f])}

\* C24: with all inputs >= 0 an accepted offer stays accepted when the
\* offer is raised, and a rejected offer stays rejected when minutes,
\* miles, perMinFloor or dpmFloor is raised.
C24_VerdictMonotone ==
    RoadDone =>
        /\ output.decisionCombined = "accept" =>
              \A v \in Above("offer") : VerdictWith("offer", v) = "accept"
        /\ output.decisionCombined = "reject" =>
              \A f \in {"minutes", "miles", "perMinFloor", "dpmFloor"} :
                 \A v \in Above(f) : VerdictWith(f, v) = "reject"

\* C25: for every input computePlannerMetrics returns an effectiveHours
\* that is at most the floored hoursPerDay, dphActive >= dphAllIn >= 0,
\* and the two rates are equal exactly when dailyTarget is 0 or
\* effectiveHours equals the floored hours.
C25_ActiveRateAtLeastAllIn ==
    PlannerDone =>
        /\ FGe(ClampTenth(input.hoursPerDay), output.effectiveHours)
        /\ FGe(output.dphActive, output.dphAllIn)
        /\ FGe(output.dphAllIn, N0)
        /\ SameNumber(output.dphActive, output.dphAllIn)
             <=> \/ SameNumber(output.dailyTarget, N0)
                 \/ SameNumber(output.effectiveHours,
                               ClampTenth(input.hoursPerDay))

\* the minutes the rides of a day take: the sum over the categories of
\* dailyCounts x avgMin
MixMinutes ==
    FAdd(FAdd(FMul(output.dailyCounts.short, Num(8)),
              FMul(output.dailyCounts.medium, Num(15))),
         FMul(output.dailyCounts.long, Num(25)))

\* short : medium : long is 10 : 4 : 2
TemplateProportions ==
    /\ FMul(output.dailyCounts.short, Num(4))
         = FMul(output.dailyCounts.medium, Num(10))
    /\ FMul(output.dailyCounts.medium, Num(2))
         = FMul(output.dailyCounts.long, Num(4))
    /\ FMul(output.dailyCounts.short, Num(2))
         = FMul(output.dailyCounts.long, Num(10))

\* no ride of any category
NoRides == \A f \in DOMAIN output.dailyCounts : IsZero(output.dailyCounts[f])

\* C26: for every hoursPerDay >= 0 the sum over the three categories of
\* dailyCounts x avgMin equals activeMinutesPerDay, and dailyCounts.short :
\* dailyCounts.medium : dailyCounts.long is 10 : 4 : 2, all three being 0
\* when the hours are 0.
C26_MixFillsActiveTime ==
    (EstimatorDone /\ FGe(ToNumber(input.hoursPerDay), N0)) =>
        /\ SameNumber(MixMinutes, output.activeMinutesPerDay)
        /\ TemplateProportions
        /\ IsZero(input.hoursPerDay) => NoRides

\* C26: when the clamped hours are 0 or at least 0.1, the sum over the
\* three categories of dailyCounts x avgMin is activeMinutesPerDay to
\* within a relative 2^-48 (the same Infinity for hours of Infinity), and
\* short : medium : long is 10 : 4 : 2, all three being 0 exactly when the
\* clamped hours are 0.
C26_MixFillsActiveTimeNearly ==
    (/\ EstimatorDone
     /\ \/ IsZero(ClampZero(input.hoursPerDay))
        \/ FGe(ClampZero(input.hoursPerDay), Tenth)) =>
        /\ Alike(MixMinutes, output.activeMinutesPerDay)
        /\ TemplateProportions
        /\ IsZero(ClampZero(input.hoursPerDay)) <=> NoRides

\* 6 hours a day: 251.99999999999997 active minutes, and rides that take
\* 252 minutes, in the proportions 10 : 4 : 2
C26_MixOffByRounding ==
    /\ EstimatorDone
    /\ input.hoursPerDay = Num(6)
    /\ JustBelow(output.activeMinutesPerDay, 252)
    /\ MixMinutes = Num(252)
    /\ TemplateProportions
    /\ ~NoRides

\* ridesUsed x minDollarsPerRide of row i
RowProduct(i) == FMul(output[i].ridesUsed, output[i].minDollarsPerRide)

\* no field f of a row is above that field of the row before
NonIncreasing(f) ==
    FGe(output[1][f], output[2][f]) /\ FGe(output[2][f], output[3][f])

\* every field f of a row is below that field of the row before
Decreasing(f) ==
    FGt(output[1][f], output[2][f]) /\ FGt(output[2][f], output[3][f])

\* C27: for every dailyTarget >= 0 each row has ridesUsed x
\* minDollarsPerRide = dailyTarget, and minDollarsPerRide and
\* maxMilesPerRide do not increase from the 10-ride row to the 20-ride row
\* to the 25-ride row; they decrease when dailyTarget > 0.
C27_RowsRebuildTarget ==
    (RowsDone /\ FGe(input.dailyTarget, N0)) =>
        /\ \A i \in 1..3 : SameNumber(RowProduct(i), input.dailyTarget)
        /\ NonIncreasing("minDollarsPerRide")
        /\ NonIncreasing("maxMilesPerRide")
        /\ FGt(input.dailyTarget, N0) =>
              Decreasing("minDollarsPerRide") /\ Decreasing("maxMilesPerRide")

\* C27: for every dailyTarget >= 0 minDollarsPerRide and maxMilesPerRide do
\* not increase from row to row; for a dailyTarget of 0, or of 1 and more,
\* ridesUsed x minDollarsPerRide is dailyTarget to within a relative 2^-52
\* in each row (Infinity for Infinity); for a finite dailyTarget of 1 and
\* more both fields decrease from row to row, and for 0 they are all 0.
C27_RowsRebuildTargetNearly ==
    (RowsDone /\ FGe(input.dailyTarget, N0)) =>
        /\ NonIncreasing("minDollarsPerRide")
        /\ NonIncreasing("maxMilesPerRide")
        /\ (IsZero(input.dailyTarget) \/ FGe(input.dailyTarget, N1)) =>
              \A i \in 1..3 :
                 /\ WithinRounding(RowProduct(i), input.dailyTarget)
                 /\ WithinRounding(input.dailyTarget, RowProduct(i))
                 /\ IsFinite(RowProduct(i)) <=> IsFinite(input.dailyTarget)
        /\ (IsFinite(input.dailyTarget) /\ FGe(input.dailyTarget, N1)) =>
              Decreasing("minDollarsPerRide") /\ Decreasing("maxMilesPerRide")
        /\ IsZero(input.dailyTarget) =>
              \A i \in 1..3 : /\ IsZero(output[i].minDollarsPerRide)
                              /\ IsZero(output[i].maxMilesPerRide)

\* a daily target of 100 / 30, 3.3333333333333335: the 10-ride row asks
\* for 0.33333333333333337 a ride, ten of which are 3.333333333333334, and
\* both fields decrease from row to row
C27_TenRidesOffByRounding ==
    /\ RowsDone
    /\ input.dailyTarget = FDiv(Num(100), Num(30))
    /\ FGt(RowProduct(1), input.dailyTarget)
    /\ WithinRounding(input.dailyTarget, RowProduct(1))
    /\ SameNumber(RowProduct(3), input.dailyTarget)
    /\ Decreasing("minDollarsPerRide")
    /\ Decreasing("maxMilesPerRide")

(***************************************************************************)
(* The views.  EarningsSuite shows one of three components, each holding   *)
(* the numbers of its fields as state.  A field hands the text it holds    *)
(* to its handler, which parses it and stores the number; the component    *)
(* is then rendered again from its state.  A text is a sequence of         *)
(* characters.                                                             *)
(***************************************************************************)
Digits == <<"0", "1", "2", "3", "4", "5", "6", "7", "8", "9">>

\* the number of digits text has from position i on
RECURSIVE DigitRun(_, _)
DigitRun(text, i) ==
    IF i <= Len(text) /\ (\E d \in 1..10 : Digits[d] = text[i])
    THEN 1 + DigitRun(text, i + 1)
    ELSE 0

\* the value of the n digits text has from position i on
RECURSIVE Natural(_, _, _)
Natural(text, i, n) ==
    IF n = 0 THEN 0
    ELSE 10 * Natural(text, i, n - 1)
           + (CHOOSE d \in 0..9 : Digits[d + 1] = text[i + n - 1])

\* parseFloat(text): a sign, digits, a point and digits, as far as the text
\* has them; NaN when it has no digit
parseFloat(text) ==
    LET first == IF text # <<>> /\ text[1] \in {"-", "+"} THEN 2 ELSE 1
        whole == DigitRun(text, first)
        point == first + whole
        frac  == IF point <= Len(text) /\ text[point] = "."
                 THEN DigitRun(text, point + 1) ELSE 0
        size  == Dec(Natural(text, first, whole) * 10^frac
                        + Natural(text, point + 1, frac), 10^frac)
    IN  IF whole + frac = 0 THEN NaN
        ELSE IF text[1] = "-" THEN Neg(size) ELSE size

\* parseInt(text, 10): a sign and digits; NaN when it has no digit
parseInt(text) ==
    LET first == IF text # <<>> /\ text[1] \in {"-", "+"} THEN 2 ELSE 1
        whole == DigitRun(text, first)
    IN  IF whole = 0 THEN NaN
        ELSE IF text[1] = "-" THEN Neg(Num(Natural(text, first, whole)))
        ELSE Num(Natural(text, first, whole))

\* the state each component starts with (OnTheRoadInline is the OnTheRoad
\* of App.tsx)
Defaults ==
    [OnTheRoad |->
        [perMinFloor |-> Dec(6, 10), dpmFloor |-> Dec(17, 10),
         minutes |-> Num(12), miles |-> Num(5), fair |-> Num(10)],
     UberEarningsPlanner |->
        [hoursPerDay |-> Num(6), earningsGoal |-> Num(1600),
         noRidePercent |-> Num(30), daysInMonth |-> Num(30)],
     MonthlyEarningsEstimator |->
        [hoursPerDay |-> Num(6), daysPerMonth |-> Num(25)],
     OnTheRoadInline |->
        [perMinFloor |-> Dec(6, 10), dpmFloor |-> Dec(17, 10),
         minutes |-> Num(12), miles |-> Num(5), fair |-> Num(10)]]

\* what OnTheRoad of planner.ts renders: the metrics, and the headline
\* verdict offerVal >= need
OnTheRoadView(state) ==
    LET metrics ==
            computeOnTheRoadMetrics([minutes     |-> state.minutes,
                                     miles       |-> state.miles,
                                     offer       |-> state.fair,
                                     perMinFloor |-> state.perMinFloor,
                                     dpmFloor    |-> state.dpmFloor])
    IN  [state    |-> state,
         metrics  |-> metrics,
         headline |-> IF FGe(ClampZero(state.fair), metrics.minCombined)
                      THEN "Accept" ELSE "Reject"]

\* the decisions OnTheRoad of App.tsx computes in the component, and its
\* headline verdict
OnTheRoadInline(state) ==
    LET offer      == Or(ToNumber(state.fair), N0)
        minByTime  == centsCeil(FMul(ClampZero(state.minutes),
                                     ClampZero(state.perMinFloor)))
        minByMiles == centsCeil(FMul(ClampZero(state.miles),
                                     ClampZero(state.dpmFloor)))
        need       == MathMax(minByTime, minByMiles)
    IN  [state            |-> state,
         minByTime        |-> minByTime,
         minByMiles       |-> minByMiles,
         minCombined      |-> need,
         binding          |-> binding(minByTime, minByMiles),
         decisionTime     |-> decision(offer, minByTime),
         decisionMiles    |-> decision(offer, minByMiles),
         decisionCombined |-> decision(offer, need),
         headline         |-> IF FGe(ClampZero(state.fair), need)
                              THEN "Accept" ELSE "Reject"]

\* what UberEarningsPlanner renders: the metrics and the rows of the table
UberEarningsPlanner(state) ==
    LET metrics ==
            computePlannerMetrics([earningsGoal |-> state.earningsGoal,
                                   daysInMonth  |-> state.daysInMonth,
                                   hoursPerDay  |-> state.hoursPerDay,
                                   idlePercent  |-> state.noRidePercent])
    IN  [state   |-> state,
         metrics |-> metrics,
         rows    |-> buildPlannerThresholdRows(metrics.dailyTarget)]

MonthlyEarningsEstimator(state) ==
    [state   |-> state,
     metrics |-> computeEstimatorMetrics(state)]

\* the component `view` with the state `state`, as rendered
Rendered(view, state) ==
    CASE view = "OnTheRoad" -> OnTheRoadView(state)
      [] view = "UberEarningsPlanner" -> UberEarningsPlanner(state)
      [] view = "MonthlyEarningsEstimator" -> MonthlyEarningsEstimator(state)
      [] view = "OnTheRoadInline" -> OnTheRoadInline(state)

\* setDaysInMonth(() => sanitizeDaysInMonth(value)) of a mutant that
\* stores the value as parsed
setDaysInMonthAsParsed(value) == value

\* setDaysInMonth(() => sanitizeDaysInMonth(value))
setSafeDaysInMonth(value) == sanitizeDaysInMonth(value, N1)

\* what the handler of a field stores for the text of the field
Stored(view, field, text) ==
    IF view = "UberEarningsPlanner" /\ field = "daysInMonth"
    THEN setSafeDaysInMonth(parseFloat(text))
    ELSE IF view = "MonthlyEarningsEstimator" /\ field = "daysPerMonth"
    THEN parseInt(text)
    ELSE parseFloat(text)

\* the handler of a field of a mounted component, and the rendering that
\* follows
onChange(view, field, text) ==
    /\ view \in DOMAIN mounted
    /\ mounted' = [mounted EXCEPT ![view] =
          Rendered(view, [@.state EXCEPT
                             ![field] = Stored(view, field, text)])]
    /\ UNCHANGED <<fn, input, output, calls, pc, earlier, shared, tab>>

\* an edit of a field of a mounted component, the texts being those of
\* `texts`
Edit(texts) ==
    \E view \in DOMAIN texts : \E field \in DOMAIN texts[view] :
       \E text \in texts[view][field] : onChange(view, field, text)

\* EarningsSuite with the component of `t` just mounted
Shown(t, view) ==
    /\ fn = "EarningsSuite"
    /\ input = NoOutput
    /\ output = NoOutput
    /\ calls = <<>>
    /\ pc = "shown"
    /\ earlier = <<>>
    /\ shared = Exported
    /\ tab = t
    /\ mounted = (view :> Rendered(view, Defaults[view]))

\* the texts typed into the fields.  Those of the planner have blank, 0,
\* negative and fractional day counts among them; those of the OnTheRoad
\* of App.tsx a blank and a negative offer, and no minutes and no miles;
\* those of EarningsSuite are one text for each field of its components.
Texts ==
    [UberEarningsPlanner |->
        [daysInMonth   |-> {<<>>, <<"0">>, <<"-", "3">>, <<"0", ".", "5">>,
                            <<"1", ".", "5">>, <<"7">>, <<"2", "8">>,
                            <<"3", "0">>, <<"3", "1">>},
         earningsGoal  |-> {<<>>, <<"0">>, <<"1", "6", "0", "0">>},
         hoursPerDay   |-> {<<>>, <<"0", ".", "5">>, <<"6">>},
         noRidePercent |-> {<<>>, <<"3", "0">>}],
     OnTheRoadInline |->
        [minutes     |-> {<<>>, <<"0">>, <<"1", "2">>, <<"1", "5">>},
         miles       |-> {<<>>, <<"0">>, <<"5">>},
         fair        |-> {<<>>, <<"-", "3">>, <<"8", ".", "9">>, <<"9">>,
                          <<"1", "0">>},
         perMinFloor |-> {<<"0">>, <<"0", ".", "6">>},
         dpmFloor    |-> {<<>>, <<"1", ".", "7">>}],
     EarningsSuite |->
        [OnTheRoad |->
            [minutes     |-> {<<"1", "5">>},
             miles       |-> {<<"0">>},
             fair        |-> {<<"-", "3">>},
             perMinFloor |-> {<<"0">>},
             dpmFloor    |-> {<<>>}],
         UberEarningsPlanner |->
            [daysInMonth   |-> {<<"0">>},
             earningsGoal  |-> {<<"6", "5", "0", "0">>},
             hoursPerDay   |-> {<<>>},
             noRidePercent |-> {<<"3", "5">>}],
         MonthlyEarningsEstimator |->
            [hoursPerDay  |-> {<<"8">>},
             daysPerMonth |-> {<<"2", ".", "5">>}]]]

EditPlanner ==
    Edit([v \in {"UberEarningsPlanner"} |-> Texts.UberEarningsPlanner])

SpecPlannerView ==
    Shown("planner", "UberEarningsPlanner") /\ [][EditPlanner]_vars

EditInline == Edit([v \in {"OnTheRoadInline"} |-> Texts.OnTheRoadInline])

SpecRoadInline == Shown("road", "OnTheRoadInline") /\ [][EditInline]_vars

\* the state the planner holds
PlannerState == mounted["UberEarningsPlanner"].state

\* C21: starting from 30, after any sequence of edits of the fields of the
\* planner (blank, 0, negative, fractional or valid day counts) the
\* daysInMonth the planner holds is a finite number >= 1, and so is the
\* day count computePlannerMetrics is called with: dailyTarget is the
\* clamped goal divided by it.
C21_DaysSanitizedOnEntry ==
    /\ IsFinite(PlannerState.daysInMonth)
    /\ FGe(PlannerState.daysInMonth, N1)
    /\ mounted["UberEarningsPlanner"].metrics.dailyTarget
         = FDiv(ClampZero(PlannerState.earningsGoal),
                PlannerState.daysInMonth)

\* a day count that was not valid has been replaced by 1: the daily target
\* is the goal of 1600
C21_DayCountReplaced ==
    /\ PlannerState.daysInMonth = N1
    /\ PlannerState.earningsGoal = Num(1600)
    /\ mounted["UberEarningsPlanner"].metrics.dailyTarget = Num(1600)

\* the component EarningsSuite renders for the tab t
ViewOf(t) ==
    IF t = "road" THEN "OnTheRoad"
    ELSE IF t = "planner" THEN "UberEarningsPlanner"
    ELSE "MonthlyEarningsEstimator"

\* the component that is unmounted, as `earlier` keeps it: its name, and
\* whether a field of it had been edited
Unmounted(view) ==
    [view |-> view, edited |-> mounted[view].state # Defaults[view]]

\* setTab that leaves the components mounted as they are and mounts the
\* one of the tab if it is not
setTabKeepingViews(t) ==
    /\ t # tab
    /\ tab' = t
    /\ mounted' = IF ViewOf(t) \in DOMAIN mounted THEN mounted
                  ELSE mounted @@ (ViewOf(t) :> Rendered(ViewOf(t),
                                                         Defaults[ViewOf(t)]))
    /\ earlier' = SubSeq(<<Unmounted(ViewOf(tab))>> \o earlier,
                         1, Least(2, Len(earlier) + 1))
    /\ UNCHANGED <<fn, input, output, calls, pc, shared>>

\* a click on the button of the tab t: setTab(t).  The component of the
\* tab shown is unmounted and its state is lost; the component of t is
\* mounted and starts with its defaults.  (A click on the button of the
\* tab shown changes nothing.)  `earlier` keeps the last two components
\* unmounted, the latest first.
setTab(t) ==
    /\ t # tab
    /\ tab' = t
    /\ mounted' = (ViewOf(t) :> Rendered(ViewOf(t), Defaults[ViewOf(t)]))
    /\ earlier' = SubSeq(<<Unmounted(ViewOf(tab))>> \o earlier,
                         1, Least(2, Len(earlier) + 1))
    /\ UNCHANGED <<fn, input, output, calls, pc, shared>>

SwitchTab == \E t \in {"road", "planner", "estimator"} : setTab(t)

EditSuite == Edit(Texts.EarningsSuite)

NextSuite == EditSuite \/ SwitchTab

SpecSuite == Shown("road", "OnTheRoad") /\ [][NextSuite]_vars

\* what the OnTheRoad of App.tsx shows
Inline == mounted["OnTheRoadInline"]

\* C28: in the OnTheRoad of App.tsx the headline verdict is Accept exactly
\* when decisionCombined is "accept", after any sequence of edits of the
\* minutes, miles, floors and offer, a blank or negative offer among them.
C28_HeadlineIsCombinedDecision ==
    Inline.headline = "Accept" <=> Inline.decisionCombined = "accept"

\* exactly one component is mounted, the one of the tab
OneViewMounted ==
    /\ Cardinality(DOMAIN mounted) = 1
    /\ DOMAIN mounted = {ViewOf(tab)}
    /\ tab \in {"road", "planner", "estimator"}

\* a step that leaves the tab alone mounts and unmounts nothing
EditStaysInView == tab' = tab => DOMAIN mounted' = DOMAIN mounted

\* a step to another tab leaves its component mounted with the defaults
\* in its fields, whatever has been edited before
SwitchMountsDefaults ==
    tab' # tab =>
        /\ DOMAIN mounted' = {ViewOf(tab')}
        /\ mounted'[ViewOf(tab')].state = Defaults[ViewOf(tab')]
        /\ mounted'[ViewOf(tab')]
             = Rendered(ViewOf(tab'), Defaults[ViewOf(tab')])

\* C29: EarningsSuite starts on the "road" tab; at any time exactly one of
\* the three components is mounted, that of the tab; an edit of a field
\* changes the mounted component only, the others holding no state; and a
\* component that is mounted by a switch of the tab has its defaults in
\* its fields again, whatever was typed into them before.
C29_FieldsHeldPerTab ==
    /\ tab = "road"
    /\ mounted["OnTheRoad"].state = Defaults["OnTheRoad"]
    /\ []OneViewMounted
    /\ [][EditStaysInView /\ SwitchMountsDefaults]_vars

\* back on the "road" tab after a visit of the planner, the fields of
\* OnTheRoad having been edited before the visit: floors 0.6 and 1.7,
\* 12 minutes, 5 miles and an offer of 10 again
C29_BackOnRoadWithDefaults ==
    /\ tab = "road"
    /\ Len(earlier) = 2
    /\ earlier[1] = [view |-> "UberEarningsPlanner", edited |-> TRUE]
    /\ earlier[2] = [view |-> "OnTheRoad", edited |-> TRUE]
    /\ mounted["OnTheRoad"].state.perMinFloor = Dec(6, 10)
    /\ mounted["OnTheRoad"].state.dpmFloor = Dec(17, 10)
    /\ mounted["OnTheRoad"].state.minutes = Num(12)
    /\ mounted["OnTheRoad"].state.miles = Num(5)
    /\ mounted["OnTheRoad"].state.fair = Num(10)
    /\ mounted["OnTheRoad"].headline = "Accept"

====
